---- MODULE Spec2Model ----
(***************************************************************************)
(* Model of DiscordWebhookHandler (src/discord_logging.py): a logging      *)
(* handler that batches records in a queue behind a minimum-interval gate  *)
(* and posts them to a webhook, retrying on rate limiting; and of the       *)
(* comment-stream loop of src/script.py (main, process_comment).           *)
(*                                                                         *)
(* Text is modelled as a run-length encoded character sequence: a string   *)
(* is a sequence of runs [c |-> character, n |-> repetitions], n > 0, with *)
(* adjacent runs carrying different characters.  Concatenation, slicing    *)
(* and joining are computed on that encoding exactly as Python computes    *)
(* them on the characters.                                                 *)
(***************************************************************************)
EXTENDS Integers, Sequences, FiniteSets, TLC

\* ---------------------------------------------------------------- bounds
MaxTime == 3          \* calls and idle clock ticks happen while clock <= MaxTime
MaxRecords == 3       \* number of distinct log records handed to emit
MaxLatency == 1       \* a POST takes 0..MaxLatency seconds to return
ShortLen == 900       \* rendering of a short record: two fit in one POST, three do not
LongLen == 2500       \* rendering of a long record: longer than one POST

MaxComments == 2      \* comments that ever exist in the subreddit
MaxBackoffs == 2      \* transient failures the loop goes through
NAttrs == 2           \* attributes scored by the classifier (of the five asked for)
BaseThreshold == 90   \* configured threshold of the first attribute, in hundredths

RecLens == {ShortLen, LongLen}
Intervals == {0, 1, 2}          \* values of min_emit_interval tried
RetryAfters == {2, 3, 10}       \* x-ratelimit-reset-after values (2: header absent)
Latencies == 0..MaxLatency

\* ------------------------------------------------------- program constants
MaxContent == 2000    \* content[:2000]
Timeout == 5          \* post_webhook(..., timeout=5.0)

\* ------------------------------------------------------------------ text
None == [id |-> 0, len |-> 0]           \* the "flush now" sentinel

Run(ch, k) == IF k > 0 THEN <<[c |-> ch, n |-> k]>> ELSE <<>>

\* s + t
Cat(s, t) ==
    IF s = <<>> THEN t
    ELSE IF t = <<>> THEN s
    ELSE IF s[Len(s)].c = t[1].c
         THEN SubSeq(s, 1, Len(s) - 1)
              \o <<[c |-> t[1].c, n |-> s[Len(s)].n + t[1].n]>>
              \o SubSeq(t, 2, Len(t))
         ELSE s \o t

RECURSIVE StrLen(_)
\* len(s)
StrLen(s) == IF s = <<>> THEN 0 ELSE s[1].n + StrLen(Tail(s))

RECURSIVE Take(_, _)
\* s[:k] for k >= 0
Take(s, k) ==
    IF k <= 0 \/ s = <<>> THEN <<>>
    ELSE IF s[1].n >= k THEN <<[c |-> s[1].c, n |-> k]>>
    ELSE <<s[1]>> \o Take(Tail(s), k - s[1].n)

RECURSIVE Join(_, _)
\* sep.join(parts)
Join(sep, parts) ==
    IF parts = <<>> THEN <<>>
    ELSE IF Len(parts) = 1 THEN parts[1]
    ELSE Cat(Cat(parts[1], sep), Join(sep, Tail(parts)))

\* t in s  (substring test)
Contains(s, t) ==
    \/ t = <<>>
    \/ /\ Len(t) = 1
       /\ \E i \in 1..Len(s) : s[i].c = t[1].c /\ s[i].n >= t[1].n
    \/ /\ Len(t) >= 2
       /\ \E i \in 1..(Len(s) - Len(t) + 1) :
            /\ s[i].c = t[1].c /\ s[i].n >= t[1].n
            /\ \A j \in 2..(Len(t) - 1) : s[i + j - 1] = t[j]
            /\ s[i + Len(t) - 1].c = t[Len(t)].c
            /\ s[i + Len(t) - 1].n >= t[Len(t)].n

\* characters are named: "bq" is the backquote, "nl" the line feed, and the
\* text of record i is made of the character named ToString(i)
Fence == Run("bq", 3)
Newline == Run("nl", 1)

\* self.format(record): the rendered text of a record; rendering the
\* sentinel None raises (Formatter.format reads attributes of the record)
Format(r) == Run(ToString(r.id), r.len)

FormatRaises(q) == \E i \in 1..Len(q) : q[i] = None

\* variant: the new record is rendered ahead of the queued ones
Block_newestFirst(q, r) ==
    LET queue_content == Join(Newline, [i \in 1..Len(q) |-> Format(q[i])])
        record_content == IF r # None THEN Format(r) ELSE <<>>
    IN  Cat(Cat(Cat(Cat(Fence, record_content), Newline), queue_content), Fence)

\* emit, lines 64-66: fence + queue_content + "\n" + record_content + fence
Block(q, r) ==
    LET queue_content == Join(Newline, [i \in 1..Len(q) |-> Format(q[i])])
        record_content == IF r # None THEN Format(r) ELSE <<>>
    IN  Cat(Cat(Cat(Cat(Fence, queue_content), Newline), record_content), Fence)

\* variant: the content is posted without the slice
Payload_unsliced(content) == content

\* data=dict(content=content[:2000])
Payload(content) == Take(content, MaxContent)

\* ----------------------------------------------------------------- state
VARIABLES
    clock,        \* monotonic()
    interval,     \* self.interval
    last_emit,    \* self.last_emit
    queue,        \* self.queue
    call,         \* frame of the most recent emit/flush call
    result,       \* its outcome so far
    start_time,   \* post_webhook: start_time
    posts,        \* contents POSTed to the webhook by the most recent call
    slept,        \* seconds slept in post_webhook by the most recent call
    resp,         \* the responses received by the most recent call
    nextId,       \* number of log records created so far
    emitted,      \* every record ever passed to emit
    delivered,    \* records contained in the content of a successful POST
    prevStart     \* start time of the latest delivery cycle begun by a record

vars == <<clock, interval, last_emit, queue, call, result, start_time, posts,
          slept, resp, nextId, emitted, delivered, prevStart>>

\* src/script.py
VARIABLES
    sup,          \* where main is: "RUNNING", "BACKOFF" (asleep) or "STOPPED"
    arrived,      \* number of comments that exist in the subreddit
    cursor,       \* comments the current stream has already yielded or skipped
    subs,         \* calls of subreddit.stream.comments so far
    backoffs,     \* transient failures handled so far
    backoff_sleep, \* the sleep_duration chosen at the latest of them
    varied,       \* two of them in a row chose different durations
    lastExc,      \* the exception most recently raised inside the loop
    stopCause,    \* why main ended: "none", "fatal", "shutdown"
    lastLog,      \* level of the most recent logger call
    proc,         \* frame of the most recent process_comment call
    scored        \* per comment, the number of times it was scored

supVars == <<sup, arrived, cursor, subs, backoffs, backoff_sleep, varied,
             lastExc, stopCause, lastLog, proc, scored>>

NoProc == [comment |-> 0, sub |-> 0, scores |-> <<>>, reports |-> <<>>,
           outcome |-> "none"]

\* the loop of script.py is not running
SupAtRest ==
    /\ sup = "RUNNING"
    /\ arrived = 0
    /\ cursor = 0
    /\ subs = 0
    /\ backoffs = 0
    /\ backoff_sleep = 0
    /\ varied = FALSE
    /\ lastExc = "none"
    /\ stopCause = "none"
    /\ lastLog = "none"
    /\ proc = NoProc
    /\ scored = [c \in 1..MaxComments |-> 0]

Idle == result # "pending"

\* DiscordWebhookHandler.__init__
HandlerInit ==
    /\ clock = 0
    /\ interval \in Intervals
    /\ last_emit = 0
    /\ queue = <<>>
    /\ call = [op |-> "init", rec |-> None, now |-> 0, preQueue |-> <<>>,
               preLast |-> 0, block |-> <<>>, prevStart |-> -1]
    /\ result = "none"
    /\ start_time = 0
    /\ posts = <<>>
    /\ slept = 0
    /\ resp = <<>>
    /\ nextId = 0
    /\ emitted = {}
    /\ delivered = {}
    /\ prevStart = -1

Init == HandlerInit /\ SupAtRest

\* time passes between calls
Tick ==
    /\ Idle
    /\ clock < MaxTime
    /\ clock' = clock + 1
    /\ UNCHANGED <<interval, last_emit, queue, call, result, start_time, posts,
                   slept, resp, nextId, emitted, delivered, prevStart>>
    /\ UNCHANGED supVars

\* variant: the gate forgets the interval
Gated_noInterval(r, now) == r # None /\ last_emit > now

\* variant: the gate comparison is reversed
Gated_reversed(r, now) == r # None /\ last_emit + interval < now

\* emit, line 60: the record is only queued while the gate is unsatisfied
Gated(r, now) == r # None /\ last_emit + interval > now

\* variant: a failed delivery does not re-enqueue the record
QueueAfterDelivery_noRequeue(q, r, success) == IF success THEN <<>> ELSE q

\* variant: a failed delivery keeps only the newest record
QueueAfterDelivery_onlyNewest(q, r, success) ==
    IF success THEN <<>> ELSE <<r>>

\* variant: a failed delivery puts the newest record in front
QueueAfterDelivery_front(q, r, success) ==
    IF success THEN <<>> ELSE <<r>> \o q

\* variant: a successful delivery does not clear the queue
QueueAfterDelivery_noClear(q, r, success) ==
    IF success THEN q ELSE Append(q, r)

\* emit, lines 69-72: the queue after a delivery attempt
QueueAfterDelivery(q, r, success) == IF success THEN <<>> ELSE Append(q, r)

\* variant: last_emit is read again after the delivery attempt
LastEmitAfterDelivery_finish(now, finish) == finish

\* emit, line 68: last_emit after a delivery attempt that began at now
\* and returned at finish
LastEmitAfterDelivery(now, finish) == now

\* variant: the check forgets the sleep that is about to happen
WouldExceed_noSleep(elapsed, sleep_duration) == elapsed > Timeout

\* variant: the check only asks whether the timeout has already passed
WouldExceed_lateCheck(elapsed, sleep_duration) == elapsed >= Timeout

\* post_webhook, line 42: the timeout would be exceeded after the sleep
WouldExceed(elapsed, sleep_duration) == elapsed + sleep_duration > Timeout

Frame(opname, r, blk) ==
    [op |-> opname, rec |-> r, now |-> clock, preQueue |-> queue,
     preLast |-> last_emit, block |-> blk, prevStart |-> prevStart]

\* emit(r), up to and including the first requests.post of post_webhook
EmitCall(opname, r) ==
    /\ Idle
    /\ clock <= MaxTime
    /\ slept' = 0
    /\ resp' = <<>>
    /\ emitted' = IF r # None THEN emitted \cup {r} ELSE emitted
    /\ IF Gated(r, clock)
       THEN /\ queue' = Append(queue, r)
            /\ call' = Frame(opname, r, <<>>)
            /\ result' = "queued"
            /\ posts' = <<>>
            /\ UNCHANGED prevStart
       ELSE IF FormatRaises(queue)
       THEN /\ call' = Frame(opname, r, <<>>)
            /\ result' = "raised"
            /\ posts' = <<>>
            /\ UNCHANGED <<queue, prevStart>>
       ELSE /\ call' = Frame(opname, r, Block(queue, r))
            /\ result' = "pending"
            /\ posts' = <<Payload(Block(queue, r))>>
            /\ prevStart' = IF r # None THEN clock ELSE prevStart
            /\ UNCHANGED queue
    /\ UNCHANGED <<clock, interval, last_emit, start_time, delivered>>
    /\ UNCHANGED supVars

\* logging hands a new record to emit
EmitRecord ==
    /\ nextId < MaxRecords
    /\ \E n \in RecLens : EmitCall("emit", [id |-> nextId + 1, len |-> n])
    /\ nextId' = nextId + 1

\* emit(None): "the queue will be flushed"
EmitNone ==
    /\ EmitCall("emit", None)
    /\ UNCHANGED nextId

\* flush()
Flush ==
    /\ IF queue # <<>>
       THEN EmitCall("flush", None)
       ELSE /\ Idle
            /\ clock <= MaxTime
            /\ call' = Frame("flush", None, <<>>)
            /\ result' = "noop"
            /\ posts' = <<>>
            /\ slept' = 0
            /\ resp' = <<>>
            /\ UNCHANGED <<clock, interval, last_emit, queue, start_time,
                           emitted, delivered, prevStart>>
            /\ UNCHANGED supVars
    /\ UNCHANGED nextId

\* post_webhook: the POST in flight returns after lat seconds; start_time
\* is read after the first POST has returned (line 36)
StartTimeAt(t) == IF Len(posts) = 1 THEN t ELSE start_time

\* emit, lines 68-72, after post_webhook returned success at time t
Complete(success, t) ==
    /\ clock' = t
    /\ last_emit' = LastEmitAfterDelivery(call.now, t)
    /\ queue' = QueueAfterDelivery(queue, call.rec, success)
    /\ result' = IF success THEN "ok" ELSE "failed"
    /\ delivered' = IF success
                    THEN delivered \cup
                         {r \in emitted : Contains(posts[Len(posts)], Format(r))}
                    ELSE delivered
    /\ UNCHANGED <<interval, call, posts, slept, nextId, emitted, prevStart>>
    /\ UNCHANGED supVars

\* response.ok: post_webhook returns True
RespondOk ==
    /\ result = "pending"
    /\ \E lat \in Latencies :
         /\ start_time' = StartTimeAt(clock + lat)
         /\ resp' = Append(resp, 0)
         /\ Complete(TRUE, clock + lat)

\* not response.ok and the sleep would exceed the timeout: returns False
RespondAbort ==
    /\ result = "pending"
    /\ \E lat \in Latencies, r \in RetryAfters :
         /\ WouldExceed(clock + lat - StartTimeAt(clock + lat), r)
         /\ start_time' = StartTimeAt(clock + lat)
         /\ resp' = Append(resp, r)
         /\ Complete(FALSE, clock + lat)

\* not response.ok and the sleep fits: sleep, then POST again
RespondRetry ==
    /\ result = "pending"
    /\ \E lat \in Latencies, r \in RetryAfters :
         /\ ~WouldExceed(clock + lat - StartTimeAt(clock + lat), r)
         /\ start_time' = StartTimeAt(clock + lat)
         /\ resp' = Append(resp, r)
         /\ clock' = clock + lat + r
         /\ slept' = slept + r
         /\ posts' = Append(posts, Payload(call.block))
         /\ UNCHANGED <<interval, last_emit, queue, call, result, nextId,
                        emitted, delivered, prevStart>>
         /\ UNCHANGED supVars

Next ==
    \/ Tick
    \/ EmitRecord
    \/ EmitNone
    \/ Flush
    \/ RespondOk
    \/ RespondAbort
    \/ RespondRetry

Spec == Init /\ [][Next]_vars

\* post_webhook on its own: the handler has just issued the first POST of an
\* emission cycle (queue q, argument r, at time t) and the endpoint answers
\* every POST
PostQueues == {<<>>, <<[id |-> 1, len |-> ShortLen]>>}
PostRecords(q) == {None} \cup {[id |-> Len(q) + 1, len |-> n] : n \in RecLens}

PostInit ==
    \E iv \in Intervals, t \in 0..MaxTime, q \in PostQueues :
      \E r \in PostRecords(q) :
        /\ r # None => t >= iv
        /\ q # <<>> => iv > 0
        /\ clock = t
        /\ interval = iv
        /\ last_emit = 0
        /\ queue = q
        /\ call = [op |-> "emit", rec |-> r, now |-> t, preQueue |-> q,
                   preLast |-> 0, block |-> Block(q, r), prevStart |-> -1]
        /\ result = "pending"
        /\ start_time = 0
        /\ posts = <<Payload(Block(q, r))>>
        /\ slept = 0
        /\ resp = <<>>
        /\ nextId = Len(q) + (IF r # None THEN 1 ELSE 0)
        /\ emitted = {q[i] : i \in 1..Len(q)} \cup ({r} \ {None})
        /\ delivered = {}
        /\ prevStart = IF r # None THEN t ELSE -1
        /\ SupAtRest

PostNext ==
    \/ RespondOk
    \/ RespondAbort
    \/ RespondRetry

PostSpec == PostInit /\ [][PostNext]_vars /\ WF_vars(PostNext)

\* ------------------------------------------------------- src/script.py
\* requestedAttributes, lines 40-46, as the lowercased keys of the result
AttributeNames ==
    <<"toxicity", "severe_toxicity", "identity_attack", "insult", "threat">>

\* the attributes of a result, in the order results.items() yields them
AttrOrder == SubSeq(AttributeNames, 1, NAttrs)
Attributes == {AttrOrder[i] : i \in 1..NAttrs}

\* config.threshold, in hundredths: thresholds differ between attributes
Threshold ==
    [a \in Attributes |->
        IF a \in {"toxicity", "identity_attack", "threat"}
        THEN BaseThreshold ELSE BaseThreshold + 1]

\* the scores a result can carry, in hundredths
ScoreVals == {BaseThreshold - 1, BaseThreshold, BaseThreshold + 1}
ScoreSets == [Attributes -> ScoreVals]

\* exceptions raised inside the loop: asyncprawcore's ServerError, or any
\* other Exception
Excs == {"ServerError", "Other"}

\* variant: an attribute is reported only above its threshold
Escalates_strict(score, threshold) == score > threshold

\* process_comment, line 95
Escalates(score, threshold) == score >= threshold

\* process_comment, lines 93-102: the attributes for which report is called
\* when no call raises, in call order
Triggered(scores) ==
    SelectSeq(AttrOrder, LAMBDA a : Escalates(scores[a], Threshold[a]))

\* process_comment, lines 91-104: the logger function used at the end
LogFunc(scores) == IF Triggered(scores) # <<>> THEN "info" ELSE "debug"

\* random.randint(a, b): an integer N with a <= N <= b
Randint(a, b) == a..b

BackoffLow == 25
BackoffHigh == 35

\* variant: the draw goes one past the upper end
BackoffDurations_wider == Randint(BackoffLow, BackoffHigh + 1)

\* main, line 73
BackoffDurations == Randint(BackoffLow, BackoffHigh)

\* main, line 69: the argument of subreddit.stream.comments
SkipExisting == FALSE

\* variant: a new stream skips what exists
FeedStart_skip(n, skip_existing) == n

\* where a new stream starts among the n comments that exist: with
\* skip_existing the items of the first request are not yielded, without it
\* they are (all of them, while fewer exist than one request fetches)
FeedStart(n, skip_existing) == IF skip_existing THEN n ELSE 0

\* variant: every exception takes the ServerError branch
Handler_retryAll(exc) == "BACKOFF"

\* variant: the two except clauses are swapped
Handler_inverted(exc) == IF exc = "ServerError" THEN "STOPPED" ELSE "BACKOFF"

\* variant: every exception takes the generic branch
Handler_allFatal(exc) == "STOPPED"

\* main, lines 72-79: which except clause takes an exception
Handler(exc) == IF exc = "ServerError" THEN "BACKOFF" ELSE "STOPPED"

\* main, before the loop is entered for the first time (lines 63-69)
SupInit ==
    /\ HandlerInit
    /\ interval = 0
    /\ sup = "RUNNING"
    /\ arrived \in 0..1
    /\ cursor = FeedStart(arrived, SkipExisting)
    /\ subs = 1
    /\ backoffs = 0
    /\ backoff_sleep = 0
    /\ varied = FALSE
    /\ lastExc = "none"
    /\ stopCause = "none"
    /\ lastLog = "none"
    /\ proc = NoProc
    /\ scored = [c \in 1..MaxComments |-> 0]

\* somebody posts a comment in the subreddit
NewComment ==
    /\ sup # "STOPPED"
    /\ arrived < MaxComments
    /\ arrived' = arrived + 1
    /\ UNCHANGED <<sup, cursor, subs, backoffs, backoff_sleep, varied,
                   lastExc, stopCause, lastLog, proc, scored>>
    /\ UNCHANGED vars

\* main, lines 72-79: exception exc reaches the try statement
Raise(exc) ==
    /\ lastExc' = exc
    /\ IF Handler(exc) = "BACKOFF"
       THEN /\ backoffs < MaxBackoffs
            /\ backoffs' = backoffs + 1
            /\ \E d \in BackoffDurations :
                 /\ backoff_sleep' = d
                 /\ varied' = (varied \/ (backoffs > 0 /\ d # backoff_sleep))
            /\ lastLog' = "warning"
            /\ sup' = "BACKOFF"
            /\ UNCHANGED stopCause
       ELSE /\ lastLog' = "error"
            /\ sup' = "STOPPED"
            /\ stopCause' = "fatal"
            /\ UNCHANGED <<backoffs, backoff_sleep, varied>>

\* the stream raises while waiting for the next comment
FeedRaises ==
    /\ sup = "RUNNING"
    /\ \E exc \in Excs : Raise(exc)
    /\ UNCHANGED <<arrived, cursor, subs, proc, scored>>
    /\ UNCHANGED vars

\* the stream yields the next comment and process_comment returns
ProcessReturns ==
    /\ sup = "RUNNING"
    /\ cursor < arrived
    /\ cursor' = cursor + 1
    /\ \E scores \in ScoreSets :
         /\ proc' = [comment |-> cursor + 1, sub |-> subs, scores |-> scores,
                     reports |-> Triggered(scores), outcome |-> "returned"]
         /\ lastLog' = LogFunc(scores)
    /\ scored' = [scored EXCEPT ![cursor + 1] = @ + 1]
    /\ UNCHANGED <<sup, arrived, subs, backoffs, backoff_sleep, varied,
                   lastExc, stopCause>>
    /\ UNCHANGED vars

\* the stream yields the next comment and evaluate_comment raises (the
\* request fails or the response has no attributeScores): line 83
EvaluateRaises ==
    /\ sup = "RUNNING"
    /\ cursor < arrived
    /\ cursor' = cursor + 1
    /\ proc' = [comment |-> cursor + 1, sub |-> subs, scores |-> <<>>,
                reports |-> <<>>, outcome |-> "evaluate raised"]
    /\ Raise("Other")
    /\ UNCHANGED <<arrived, subs, scored>>
    /\ UNCHANGED vars

\* the stream yields the next comment and the k-th report call of
\* process_comment raises (lines 99-102)
ReportRaises ==
    /\ sup = "RUNNING"
    /\ cursor < arrived
    /\ cursor' = cursor + 1
    /\ \E scores \in ScoreSets, exc \in Excs :
         \E k \in 1..Len(Triggered(scores)) :
            /\ proc' = [comment |-> cursor + 1, sub |-> subs,
                        scores |-> scores,
                        reports |-> SubSeq(Triggered(scores), 1, k),
                        outcome |-> "report raised"]
            /\ Raise(exc)
    /\ scored' = [scored EXCEPT ![cursor + 1] = @ + 1]
    /\ UNCHANGED <<arrived, subs>>
    /\ UNCHANGED vars

\* main, line 75 and back to line 69: the sleep ends and a new stream is
\* opened
BackoffDone ==
    /\ sup = "BACKOFF"
    /\ sup' = "RUNNING"
    /\ subs' = subs + 1
    /\ cursor' = FeedStart(arrived, SkipExisting)
    /\ UNCHANGED <<arrived, backoffs, backoff_sleep, varied, lastExc,
                   stopCause, lastLog, proc, scored>>
    /\ UNCHANGED vars

\* KeyboardInterrupt (lines 123-126): main is cancelled; neither except
\* clause catches the cancellation
Shutdown ==
    /\ sup # "STOPPED"
    /\ sup' = "STOPPED"
    /\ stopCause' = "shutdown"
    /\ UNCHANGED <<arrived, cursor, subs, backoffs, backoff_sleep, varied,
                   lastExc, lastLog, proc, scored>>
    /\ UNCHANGED vars

SupNext ==
    \/ NewComment
    \/ FeedRaises
    \/ ProcessReturns
    \/ EvaluateRaises
    \/ ReportRaises
    \/ BackoffDone
    \/ Shutdown

SupSpec == SupInit /\ [][SupNext]_supVars

\* ---------------------------------------------------------- properties
IsReal(r) == r # None
InQueue(r) == \E i \in 1..Len(queue) : queue[i] = r
Attempted == result \in {"ok", "failed"}
IsPrefixSeq(p, s) == Len(p) <= Len(s) /\ SubSeq(s, 1, Len(p)) = p

\* p is made of the first characters of s
IsPrefixStr(p, s) ==
    \/ p = <<>>
    \/ /\ Len(p) <= Len(s)
       /\ \A i \in 1..(Len(p) - 1) : p[i] = s[i]
       /\ p[Len(p)].c = s[Len(p)].c
       /\ p[Len(p)].n <= s[Len(p)].n

\* C1: an emit of a real record made while the interval gate is unsatisfied
\* (last_emit + interval > now) issues no POST and appends the record at the
\* end of PendingQueue, after everything that was there; step by step, a
\* sequence of such emits leaves the records queued in arrival order.
C1_GatedEmitsOnlyQueue ==
    [][ (/\ Idle
         /\ call' # call
         /\ call'.op = "emit"
         /\ IsReal(call'.rec)
         /\ last_emit + interval > clock)
        => (/\ queue' = Append(queue, call'.rec)
            /\ posts' = <<>>
            /\ result' = "queued"
            /\ clock' = clock) ]_vars

\* two emits in a row were queued behind the gate
C1_Witness ==
    /\ result = "queued"
    /\ Len(queue) >= 2
    /\ queue = Append(call.preQueue, call.rec)
    /\ queue[Len(queue) - 1].id + 1 = call.rec.id
    /\ posts = <<>>

\* C2: no record is ever lost: between calls, every record ever passed to
\* emit is still in PendingQueue or was contained in the content of a POST
\* that succeeded.
C2_NoRecordLost ==
    Idle => \A r \in emitted : InQueue(r) \/ r \in delivered

\* C3: after an emission cycle whose delivery failed, the record that
\* triggered it is in PendingQueue.
C3_FailedKeepsTrigger ==
    (result = "failed" /\ IsReal(call.rec)) => InQueue(call.rec)

C3_Witness ==
    /\ result = "failed"
    /\ IsReal(call.rec)
    /\ call.preQueue = <<>>

\* C4 as stated: after a failed delivery the records queued before the
\* attempt are gone from PendingQueue and only the newest one is there.
C4_Original ==
    result = "failed" =>
        /\ \A i \in 1..Len(call.preQueue) : ~InQueue(call.preQueue[i])
        /\ queue = <<call.rec>>

\* C4 amended: after a failed delivery PendingQueue is what it was before
\* the attempt, in the same order, followed by the argument of the emit
\* (the new record, or the flush sentinel): nothing queued is dropped.
C4_FailedKeepsBatch ==
    result = "failed" => queue = Append(call.preQueue, call.rec)

C4_Witness ==
    /\ result = "failed"
    /\ IsReal(call.rec)
    /\ Len(call.preQueue) >= 2
    /\ Len(queue) = Len(call.preQueue) + 1

\* C5: PendingQueue only grows at its end, and it shrinks only by being
\* emptied by the step that completes a successful delivery; a step of a
\* failed delivery, or one that attempts none, keeps every queued record in
\* place.
C5_AppendOnlyUntilSuccess ==
    [][ \/ IsPrefixSeq(queue, queue')
        \/ (result = "pending" /\ result' = "ok" /\ queue' = <<>>) ]_vars

C5_Witness ==
    /\ result = "failed"
    /\ call.op = "flush"
    /\ Len(queue) >= 3
    /\ IsPrefixSeq(call.preQueue, queue)

\* C6: after an emission cycle whose delivery succeeded PendingQueue is
\* empty.
C6_SuccessClears ==
    result = "ok" => queue = <<>>

C6_Witness ==
    /\ result = "ok"
    /\ Len(call.preQueue) >= 2
    /\ queue = <<>>

\* C7: a cycle that attempted delivery leaves last_emit at the time read at
\* the start of the cycle, success or failure; an emit that only queued
\* leaves last_emit as it was.
C7_LastEmitIsCycleStart ==
    /\ Attempted => last_emit = call.now
    /\ result = "queued" => last_emit = call.preLast

\* a failed cycle that slept in between
C7_Witness ==
    /\ result = "failed"
    /\ slept > 0
    /\ clock > call.now
    /\ last_emit = call.now
    /\ call.preLast < call.now

\* C8: a real record starts a delivery cycle only when
\* now - last_emit >= interval, and is queued without any POST otherwise;
\* two consecutive cycles started by real records begin at least interval
\* apart.
C8_GateSpacing ==
    IsReal(call.rec) =>
        /\ result \in {"pending", "ok", "failed"} =>
              /\ call.now - call.preLast >= interval
              /\ call.prevStart # -1 => call.now - call.prevStart >= interval
        /\ call.now - call.preLast < interval =>
              /\ result = "queued"
              /\ posts = <<>>

\* a second cycle started by a real record, with a positive interval
C8_Witness ==
    /\ Attempted
    /\ IsReal(call.rec)
    /\ interval > 0
    /\ call.prevStart # -1
    /\ call.now - call.prevStart >= interval

\* C9: every POST of a cycle, first try and retries, carries at most 2000
\* characters: the combined block itself when it fits and its first 2000
\* characters when it does not; every POST of the cycle carries that same
\* content, so the rest of the block is never sent.
C9_ContentBounded ==
    \A i \in 1..Len(posts) :
        /\ StrLen(posts[i]) <= 2000
        /\ IsPrefixStr(posts[i], call.block)
        /\ StrLen(posts[i]) =
              IF StrLen(call.block) > 2000 THEN 2000 ELSE StrLen(call.block)
        /\ posts[i] = posts[1]

\* a truncated block that was posted twice
C9_Witness ==
    /\ StrLen(call.block) > 2000
    /\ Len(posts) >= 2
    /\ StrLen(posts[2]) = 2000

\* the responses so far were all rate limits with retry-after r
Persistent(r) == resp # <<>> /\ \A i \in 1..Len(resp) : resp[i] = r

C10_State ==
    /\ Persistent(3) =>
          /\ Len(resp) <= 2
          /\ Len(resp) = 1 => (result = "pending" /\ Len(posts) = 2 /\ slept = 3)
          /\ Len(resp) = 2 => (result = "failed" /\ Len(posts) = 2 /\ slept = 3)
    /\ Persistent(10) =>
          /\ Len(resp) = 1
          /\ result = "failed"
          /\ Len(posts) = 1
          /\ slept = 0

C10_Step ==
    (/\ result = "pending"
     /\ Len(resp') = Len(resp) + 1
     /\ resp'[Len(resp')] # 0)
    => LET r == resp'[Len(resp')]
           elapsed == IF slept' = slept THEN clock' - start_time'
                      ELSE clock' - r - start_time'
       IN  IF elapsed + r <= Timeout
           THEN /\ slept' = slept + r
                /\ clock' >= clock + r
                /\ Len(posts') = Len(posts) + 1
                /\ result' = "pending"
           ELSE /\ slept' = slept
                /\ posts' = posts
                /\ result' = "failed"

\* C10: after a non-success response with retry-after r, post_webhook sleeps
\* r and posts again only if elapsed + r does not exceed the timeout, and
\* otherwise returns failure at once without sleeping; with timeout 5 and
\* persistent rate limiting, r = 3 gives two POSTs then failure, and r = 10
\* gives one POST, no sleep and failure.
C10_RetryWithinTimeout ==
    [](C10_State) /\ [][C10_Step]_vars

\* persistent rate limiting with retry-after 3 has run to its end
C10_Witness ==
    /\ result = "failed"
    /\ resp = <<3, 3>>
    /\ Len(posts) = 2
    /\ slept = 3

\* the call went past the gate and handed a block to post_webhook
InCycle == result \in {"pending", "ok", "failed"}

\* the runs of the block built from queue q and record r, written out:
\* fence, every queued rendering followed by a line feed (a lone line feed
\* when nothing is queued), the rendering of r if there is one, fence
ExpectedBlock(q, r) ==
    Fence
    \o (IF q = <<>> THEN Newline
        ELSE [i \in 1..(2 * Len(q)) |->
                IF i % 2 = 1 THEN [c |-> ToString(q[(i + 1) \div 2].id),
                                   n |-> q[(i + 1) \div 2].len]
                ELSE [c |-> "nl", n |-> 1]])
    \o (IF r # None THEN <<[c |-> ToString(r.id), n |-> r.len]>> ELSE <<>>)
    \o Fence

IsRecordRun(x) == x.c \notin {"bq", "nl"}

\* C11 as stated: the block holds the renderings of the queued records in
\* arrival order followed by the new record, and with an empty queue the
\* text delivered is the rendering of the new record and nothing else.
C11_Original ==
    InCycle =>
        /\ SelectSeq(call.block, IsRecordRun) =
              [i \in 1..Len(call.preQueue) |-> Format(call.preQueue[i])[1]]
              \o Format(call.rec)
        /\ (call.preQueue = <<>> /\ IsReal(call.rec)) =>
              posts[1] = Format(call.rec)

\* C11 amended: the content handed to post_webhook is one block: a fence of
\* three backquotes, the renderings of the queued records in arrival order
\* joined by line feeds, a line feed, the rendering of the new record (empty
\* for a flush) and a closing fence; with an empty queue it is fence, line
\* feed, rendered record, fence.  What is posted is that block, cut to its
\* first 2000 characters.
C11_CombinedBlock ==
    InCycle =>
        /\ call.block = ExpectedBlock(call.preQueue, call.rec)
        /\ IsPrefixStr(posts[1], call.block)
        /\ StrLen(call.block) <= 2000 => posts[1] = call.block

C11_Witness ==
    /\ result = "ok"
    /\ Len(call.preQueue) = 1
    /\ IsReal(call.rec)
    /\ call.preQueue[1].id < call.rec.id
    /\ posts[1] = call.block

\* C12: flush() with an empty queue issues no POST and changes neither the
\* queue nor last_emit; flush() with a non-empty queue runs one emission
\* cycle with no new record, whatever the gate says.
C12_FlushCycle ==
    call.op = "flush" =>
        IF call.preQueue = <<>>
        THEN /\ result = "noop"
             /\ posts = <<>>
             /\ queue = call.preQueue
             /\ last_emit = call.preLast
        ELSE /\ InCycle
             /\ call.rec = None
             /\ Len(posts) >= 1

\* C19: PendingQueue never holds the flush sentinel.
C19_NoSentinelQueued ==
    \A i \in 1..Len(queue) : queue[i] # None

\* the smallest retry-after the endpoint sends
MinRetryAfter == CHOOSE r \in RetryAfters : \A x \in RetryAfters : r <= x

\* C20: within one post_webhook call the seconds spent in retry sleeps never
\* exceed the timeout, the number of POSTs stays within timeout / retry-after
\* + 1, and the call returns (True or False) even under endless rate
\* limiting.
C20_BoundedRetries ==
    /\ [](slept <= Timeout /\ Len(posts) <= Timeout \div MinRetryAfter + 1)
    /\ (result = "pending") ~> (result \in {"ok", "failed"})

\* rate limited with retry-after 2 until the timeout stopped the retries
C20_Witness ==
    /\ result = "failed"
    /\ resp = <<2, 2, 2>>
    /\ slept = 4
    /\ Len(posts) = 3

\* C13 as stated: a classifier failure while processing a comment does not
\* stop the supervisor.
C13_Original ==
    proc.outcome = "evaluate raised" => stopCause # "fatal"

\* C13 amended: a classifier failure while processing a comment is not
\* recovered: it leaves process_comment, is logged at error level by the
\* generic except clause and raised again, so the supervisor is STOPPED and
\* no later comment is processed.
C13_ClassifierFailureStops ==
    /\ [](proc.outcome = "evaluate raised" =>
            /\ sup = "STOPPED"
            /\ stopCause = "fatal"
            /\ lastLog = "error")
    /\ [][proc.outcome = "evaluate raised" =>
            (proc' = proc /\ scored' = scored /\ cursor' = cursor)]_supVars

\* the classifier failed on the first comment while a second one waits
C13_Witness ==
    /\ proc.outcome = "evaluate raised"
    /\ proc.comment = 1
    /\ cursor < arrived
    /\ scored[arrived] = 0

\* C14: a ServerError takes the supervisor from RUNNING to BACKOFF and never
\* to STOPPED; from BACKOFF it goes back to RUNNING on a new subscription
\* (only a shutdown ends it there); the supervisor stops only on a shutdown
\* or on an exception that is not a ServerError.
C14_BackoffAndResume ==
    /\ [](lastExc = "ServerError" => stopCause # "fatal")
    /\ [][ /\ backoffs' # backoffs =>
                /\ sup = "RUNNING"
                /\ sup' = "BACKOFF"
                /\ lastExc' = "ServerError"
                /\ backoffs' = backoffs + 1
           /\ (sup = "RUNNING" /\ lastExc' = "ServerError" /\ sup' # "RUNNING")
                => (sup' = "BACKOFF" \/ stopCause' = "shutdown")
           /\ (sup = "BACKOFF" /\ sup' # "BACKOFF") =>
                \/ sup' = "RUNNING" /\ subs' = subs + 1
                \/ sup' = "STOPPED" /\ stopCause' = "shutdown"
           /\ (sup # "STOPPED" /\ sup' = "STOPPED") =>
                \/ stopCause' = "shutdown"
                \/ stopCause' = "fatal" /\ lastExc' = "Other" ]_supVars

\* a comment was processed on the third subscription, after two backoffs
C14_Witness ==
    /\ backoffs = 2
    /\ sup = "RUNNING"
    /\ subs = 3
    /\ proc.sub = 3
    /\ proc.outcome = "returned"

\* C15: an exception other than ServerError raised inside the loop is logged
\* at error level and raised again: the supervisor is STOPPED, and once
\* STOPPED it consumes no comment.
C15_OtherFailureIsFatal ==
    /\ [](lastExc = "Other" =>
            /\ sup = "STOPPED"
            /\ stopCause = "fatal"
            /\ lastLog = "error")
    /\ [][sup = "STOPPED" => UNCHANGED <<cursor, proc, scored>>]_supVars

\* the stream itself raised while a comment was waiting
C15_Witness ==
    /\ lastExc = "Other"
    /\ sup = "STOPPED"
    /\ proc.outcome \in {"none", "returned"}
    /\ cursor < arrived

\* C16 as stated: every backoff duration lies in [25, 35).
C16_Original ==
    backoffs > 0 => (25 <= backoff_sleep /\ backoff_sleep < 35)

\* C16 amended: every backoff duration is a whole number of seconds in the
\* closed interval [25, 35], 35 included, drawn again at each occurrence.
C16_BackoffRange ==
    backoffs > 0 =>
        (backoff_sleep \in Int /\ 25 <= backoff_sleep /\ backoff_sleep <= 35)

\* two occurrences in a row drew different durations, the later one 35
C16_Witness ==
    /\ backoffs = 2
    /\ varied
    /\ backoff_sleep = 35

\* C17: no comment is scored more than once, backoffs and re-subscriptions
\* included.
C17_AtMostOnce ==
    \A c \in 1..MaxComments : scored[c] <= 1

ReportsOf(a) == {i \in 1..Len(proc.reports) : proc.reports[i] = a}

====
